---- MODULE Spec2Model ----
(***************************************************************************)
(* A model of als-microct-toolbox/data_management.py: the SpotSession      *)
(* client of the SPOT portal (authentication, queries, staging, downloads) *)
(* and the module-level NERSC helpers.                                     *)
(*                                                                         *)
(* Strings are sequences of one-character strings, so that str.strip,      *)
(* str.split, str.find and indexing act on characters as in Python.  A     *)
(* literal of the source that the code only ever concatenates or compares  *)
(* as a whole (an endpoint URL, the 'default' sentinel, 'alvarorh') is one  *)
(* element holding the literal; no input alphabet contains such an         *)
(* element, so equality of modelled strings is equality of the strings.    *)
(* Python's None is the one-element sequence NoneValue.                    *)
(***************************************************************************)
EXTENDS Integers, Sequences, FiniteSets, TLC

VARIABLES
    obj,            \* TRUE once a SpotSession object has been constructed
    username,       \* self.username
    spot_username,  \* self.spot_username
    session,        \* self.session: the requests.Session the object holds
    closeCalled,    \* history: close() has been called on the object
    log,            \* the calls the most recent operation made on a requests.Session, in order
    written,        \* the files opened for writing by the most recent operation
    args,           \* the most recent operation and its inputs
    ret             \* how the most recent operation ended

vars == <<obj, username, spot_username, session, closeCalled, log, written, args, ret>>

----------------------------------------------------------------------------
(* Bounds of the model. *)

MaxLen == 5

----------------------------------------------------------------------------
(* Python values and string primitives. *)

NoneValue == <<"None">>

DefaultSentinel == <<"default">>

Alvarorh == <<"alvarorh">>

DotH5 == <<".", "h", "5">>

Slash == <<"/">>

Alphabet == {"a", "h", "5", ".", "/"}

StringsUpTo(alphabet, n) == UNION {[1..k -> alphabet] : k \in 0..n}

Chars(s) == {s[i] : i \in 1..Len(s)}

\* str.lstrip(chars): drop leading characters that are in chars.
RECURSIVE LStrip(_, _)
LStrip(s, chars) ==
    IF s # <<>> /\ Head(s) \in chars THEN LStrip(Tail(s), chars) ELSE s

\* str.rstrip(chars): drop trailing characters that are in chars.
RECURSIVE RStrip(_, _)
RStrip(s, chars) ==
    IF s # <<>> /\ s[Len(s)] \in chars
    THEN RStrip(SubSeq(s, 1, Len(s) - 1), chars)
    ELSE s

\* A strip that only removes leading characters.
StripLeadingOnly(s, chars) == LStrip(s, chars)

\* str.strip(chars): chars is a set of characters, removed from both ends.
Strip(s, chars) == RStrip(LStrip(s, chars), chars)

\* str.split(sep) for a one-character sep: the segments between separators.
RECURSIVE Split(_, _)
Split(s, sep) ==
    IF \A i \in 1..Len(s) : s[i] # sep
    THEN <<s>>
    ELSE LET k == CHOOSE i \in 1..Len(s) :
                      s[i] = sep /\ \A j \in 1..(i - 1) : s[j] # sep
         IN  <<SubSeq(s, 1, k - 1)>> \o Split(SubSeq(s, k + 1, Len(s)), sep)

\* sub in s, and s.find(sub) != -1
Contains(s, sub) ==
    \E i \in 0..(Len(s) - Len(sub)) : SubSeq(s, i + 1, i + Len(sub)) = sub

EndsWith(s, suffix) ==
    Len(s) >= Len(suffix) /\ SubSeq(s, Len(s) - Len(suffix) + 1, Len(s)) = suffix

----------------------------------------------------------------------------
(* SpotSession.formatPath *)

formatPath(self_spot_username, dataset, user) ==
    LET ds == Strip(dataset, Chars(DotH5)) IN
    IF user = DefaultSentinel \/ user = NoneValue
    THEN [filename |-> ds, username |-> self_spot_username]
    ELSE IF Contains(ds, Slash)
    THEN LET datasplit == Split(ds, "/") IN
         [filename |-> datasplit[Len(datasplit)],
          username |-> datasplit[Len(datasplit) - 1]]
    ELSE [filename |-> ds, username |-> user]

----------------------------------------------------------------------------
(* The states common to the specifications. *)

NoSession == [id |-> 0, authenticated |-> FALSE]

NotCalled == [status |-> "none"]

Returned(v) == [status |-> "returned", value |-> v]

Raised(e) == [status |-> "raised", exc |-> e]

UsernameInputs == {DefaultSentinel, NoneValue, <<"u">>}

\* self.spot_username as the constructor leaves it for a username argument.
SpotUsernameOf(user) == IF user = DefaultSentinel THEN Alvarorh ELSE user

----------------------------------------------------------------------------
(* SpecPath: formatPath applied to every dataset string of at most MaxLen  *)
(* characters and every username argument, on a constructed session.       *)

InitPath ==
    /\ obj = TRUE
    /\ username = Alvarorh
    /\ spot_username \in {SpotUsernameOf(u) : u \in {DefaultSentinel, <<"u">>}}
    /\ session = [id |-> 1, authenticated |-> TRUE]
    /\ closeCalled = FALSE
    /\ log = <<>>
    /\ written = {}
    /\ args \in [op : {"formatPath"},
                 dataset : StringsUpTo(Alphabet, MaxLen),
                 username : UsernameInputs]
    /\ ret = NotCalled

Call_formatPath ==
    /\ args.op = "formatPath"
    /\ ret = NotCalled
    /\ ret' = Returned(formatPath(spot_username, args.dataset, args.username))
    /\ UNCHANGED <<obj, username, spot_username, session, closeCalled, log, written, args>>

NextPath == Call_formatPath

SpecPath == InitPath /\ [][NextPath]_vars

\* C7: for every dataset d ending in '.h5' and every username argument,
\* formatPath(d, username) returns the same (filename, username) pair as
\* formatPath applied to d with that final '.h5' removed.
C7_ExtensionInvariant ==
    (args.op = "formatPath" /\ ret.status = "returned" /\ EndsWith(args.dataset, DotH5))
        => ret.value = formatPath(spot_username,
                                  SubSeq(args.dataset, 1, Len(args.dataset) - Len(DotH5)),
                                  args.username)

\* formatPath has returned for an identifier u/f.h5 given with an explicit username.
C7_Witness ==
    /\ args.op = "formatPath"
    /\ ret.status = "returned"
    /\ EndsWith(args.dataset, DotH5)
    /\ Len(args.dataset) > Len(DotH5)
    /\ Contains(args.dataset, Slash)
    /\ args.username = <<"u">>

\* The part of s after its last separator, and the part before it.
AfterLastSlash(s) == LET parts == Split(s, "/") IN parts[Len(parts)]

BeforeLastSlash(s) == SubSeq(s, 1, Len(s) - Len(AfterLastSlash(s)) - 1)

\* C1: for every identifier u/f and every value of the username argument
\* (omitted, None and 'default' included), formatPath returns filename = f, the
\* segment after the last separator, and username = u, the segment before it
\* (read either as everything before the last separator or as the last of the
\* segments before it).
C1_SeparatorSplits ==
    (args.op = "formatPath" /\ ret.status = "returned" /\ Contains(args.dataset, Slash))
        => /\ ret.value.filename = AfterLastSlash(args.dataset)
           /\ ret.value.username \in {BeforeLastSlash(args.dataset),
                                      AfterLastSlash(BeforeLastSlash(args.dataset))}

\* C6: for every identifier without a path separator, the returned filename is
\* the identifier itself when it does not end in '.h5' and the identifier minus
\* its trailing extension when it does (the extension counted as the three
\* characters of '.h5' or as the claim's four); no other leading or trailing
\* character is removed.
C6_OnlyTrailingExtension ==
    (args.op = "formatPath" /\ ret.status = "returned" /\ ~Contains(args.dataset, Slash))
        => IF EndsWith(args.dataset, DotH5)
           THEN ret.value.filename \in
                    {SubSeq(args.dataset, 1, Len(args.dataset) - 3),
                     SubSeq(args.dataset, 1, Len(args.dataset) - 4)}
           ELSE ret.value.filename = args.dataset

----------------------------------------------------------------------------
(* list_from_txt *)

MaxTextLen == 5

Space == {" "}

Newline == {"\n"}

TextAlphabet == {"a", " ", "#", "\n"}

\* The file of the documented example: "a\n#b\n c \n".
ExampleText == <<"a", "\n", "#", "b", "\n", " ", "c", " ", "\n">>

\* file.readlines(): the lines of the text, each with its terminator.
RECURSIVE ReadLines(_)
ReadLines(text) ==
    IF text = <<>> THEN <<>>
    ELSE IF \A i \in 1..Len(text) : text[i] # "\n" THEN <<text>>
    ELSE LET k == CHOOSE i \in 1..Len(text) :
                      text[i] = "\n" /\ \A j \in 1..(i - 1) : text[j] # "\n"
         IN  <<SubSeq(text, 1, k)>> \o ReadLines(SubSeq(text, k + 1, Len(text)))

\* The loop body's two strips: data[i].strip(" ") and then .strip("\n").
StripLine(line) == Strip(Strip(line, Space), Newline)

\* The loop over data from index i on, fileList being the entries kept so far.
RECURSIVE list_from_txt_loop(_, _, _, _)
list_from_txt_loop(data, i, comment, fileList) ==
    IF i > Len(data) THEN Returned(fileList)
    ELSE LET line == StripLine(data[i]) IN
         IF line = <<>> THEN Raised("IndexError")
         ELSE IF <<line[1]>> # comment
         THEN list_from_txt_loop(data, i + 1, comment, Append(fileList, line))
         ELSE list_from_txt_loop(data, i + 1, comment, fileList)

\* file is the text resource at TextFilePath: whether it can be opened, and its
\* text.  The outcomes the call can have: a path holding '.py' goes to execfile,
\* which Python 3 does not define (NameError) and Python 2 runs, the function
\* then returning None or failing as the script or its opening fails.
list_from_txt(TextFilePath, comment, file) ==
    IF Contains(TextFilePath, <<".py">>)
    THEN {Raised("NameError"), Returned(NoneValue), Raised("IOError")}
    ELSE IF ~file.readable THEN {Raised("IOError")}
    ELSE {list_from_txt_loop(ReadLines(file.text), 1, comment, <<>>)}

TextFiles ==
    [readable : {TRUE},
     text : StringsUpTo(TextAlphabet, MaxTextLen) \cup {ExampleText}]
        \cup {[readable |-> FALSE, text |-> <<>>]}

InitTxt ==
    /\ obj = FALSE
    /\ username = <<>>
    /\ spot_username = <<>>
    /\ session = NoSession
    /\ closeCalled = FALSE
    /\ log = <<>>
    /\ written = {}
    /\ args \in [op : {"list_from_txt"},
                 TextFilePath : {<<"FileList", ".txt">>, <<"FileList", ".py">>},
                 comment : {<<"#">>},
                 file : TextFiles]
    /\ ret = NotCalled

Call_list_from_txt ==
    /\ args.op = "list_from_txt"
    /\ ret = NotCalled
    /\ ret' \in list_from_txt(args.TextFilePath, args.comment, args.file)
    /\ UNCHANGED <<obj, username, spot_username, session, closeCalled, log, written, args>>

NextTxt == Call_list_from_txt

SpecTxt == InitTxt /\ [][NextTxt]_vars

\* The text cut at its line terminators, the terminators dropped.
TextLines(text) ==
    LET parts == Split(text, "\n")
    IN  IF parts[Len(parts)] = <<>> THEN SubSeq(parts, 1, Len(parts) - 1) ELSE parts

Trimmed(line) == Strip(line, {" ", "\n"})

StartsWith(s, prefix) == Len(s) >= Len(prefix) /\ SubSeq(s, 1, Len(prefix)) = prefix

RECURSIVE KeptLines(_, _, _, _)
KeptLines(lines, prefix, trimFirst, keepBlank) ==
    IF lines = <<>> THEN <<>>
    ELSE LET t == Trimmed(Head(lines))
             commented == StartsWith(IF trimFirst THEN t ELSE Head(lines), prefix)
             rest == KeptLines(Tail(lines), prefix, trimFirst, keepBlank)
         IN  IF commented \/ (t = <<>> /\ ~keepBlank) THEN rest ELSE <<t>> \o rest

\* C4: list_from_txt returns, in file order, every line that does not begin with
\* the comment prefix, each with its leading and trailing whitespace (spaces and
\* the line terminator) removed, and no input line, a blank one included, makes
\* it fail; the file "a\n#b\n c \n" with prefix '#' yields ["a", "c"].  (The
\* prefix is looked for before or after the trimming, and a blank line gives an
\* empty entry or none: any of these readings satisfies the formula.)
C4_TrimmedUncommentedLines ==
    (args.op = "list_from_txt" /\ ret # NotCalled /\ args.file.readable
            /\ ~Contains(args.TextFilePath, <<".py">>))
        => /\ ret.status = "returned"
           /\ ret.value \in {KeptLines(TextLines(args.file.text), args.comment, t, b) :
                                t \in BOOLEAN, b \in BOOLEAN}
           /\ args.file.text = ExampleText => ret.value = << <<"a">>, <<"c">> >>

----------------------------------------------------------------------------
(* NERSC_ArchivePath, and the resource SpotSession.download requests *)

MaxList == 2

NERSC_DefaultPath == <<"/global/project/projectdirs/als/spade/warehouse/als/bl832/">>

userDefault == <<"hsbarnard">>

URL_download == <<"https://portal-auth.nersc.gov/als/hdf/download/als/bl832/">>

Raw == <<"/", "r", "a", "w", "/">>

\* A Python value that is a str (held in field s) or a list of str (in field l).
Str(s) == [type |-> "str", s |-> s, l |-> <<>>]

List(l) == [type |-> "list", s |-> <<>>, l |-> l]

\* The loop of NERSC_ArchivePath over the list from index i on.
RECURSIVE NERSC_ArchivePath_loop(_, _, _, _, _)
NERSC_ArchivePath_loop(filename, i, useraccount, archivepath, pathOut) ==
    IF i > Len(filename) THEN pathOut
    ELSE NERSC_ArchivePath_loop(filename, i + 1, useraccount, archivepath,
             Append(pathOut, archivepath \o useraccount \o Slash \o filename[i] \o Raw))

\* The path with the file itself appended, as in the line the source comments out.
NERSC_ArchivePath_WithFile(filename, useraccount, archivepath) ==
    LET names == IF filename.type # "list" THEN <<filename.s>> ELSE filename.l
    IN  [i \in 1..Len(names) |->
            archivepath \o useraccount \o Slash \o names[i] \o Raw \o names[i] \o DotH5]

NERSC_ArchivePath(filename, useraccount, archivepath) ==
    LET names == IF filename.type # "list" THEN <<filename.s>> ELSE filename.l
    IN  NERSC_ArchivePath_loop(names, 1, useraccount, archivepath, <<>>)

\* URL_string of SpotSession.download for its dataset and username arguments.
download_URL_string(self_spot_username, dataset, user) ==
    LET fp == formatPath(self_spot_username, dataset, user)
    IN  URL_download \o fp.username \o Slash \o fp.filename \o Raw \o fp.filename \o DotH5

FilenameSamples == {<<"a">>, <<"a", "5">>, <<"u", "/", "a">>}

InitArchive ==
    /\ obj = TRUE
    /\ username = Alvarorh
    /\ spot_username \in {SpotUsernameOf(u) : u \in {DefaultSentinel, <<"u">>}}
    /\ session = [id |-> 1, authenticated |-> TRUE]
    /\ closeCalled = FALSE
    /\ log = <<>>
    /\ written = {}
    /\ args \in [op : {"NERSC_ArchivePath"},
                 filename : {Str(f) : f \in StringsUpTo(Alphabet, MaxLen)}
                            \cup {List(l) : l \in StringsUpTo(FilenameSamples, MaxList)},
                 useraccount : {userDefault, <<"u">>, DefaultSentinel},
                 archivepath : {NERSC_DefaultPath, URL_download}]
    /\ ret = NotCalled

Call_NERSC_ArchivePath ==
    /\ args.op = "NERSC_ArchivePath"
    /\ ret = NotCalled
    /\ ret' = Returned(NERSC_ArchivePath(args.filename, args.useraccount, args.archivepath))
    /\ UNCHANGED <<obj, username, spot_username, session, closeCalled, log, written, args>>

NextArchive == Call_NERSC_ArchivePath

SpecArchive == InitArchive /\ [][NextArchive]_vars

\* The filenames of an argument, a single identifier counting as one.
NamesOf(filename) == IF filename.type = "str" THEN <<filename.s>> ELSE filename.l

ReturnedUnchanged(f, a) ==
    /\ a \notin {DefaultSentinel, NoneValue}
    /\ ~Contains(f, Slash)
    /\ f # <<>> => (f[1] \notin Chars(DotH5) /\ f[Len(f)] \notin Chars(DotH5))

----------------------------------------------------------------------------
(* The SPOT service as the session sees it, and the calls on requests.Session *)

MaxDerived == 2

MaxImages == 2

MaxSessions == 2

URL_authentication == <<"https://portal-auth.nersc.gov/als/auth">>

URL_search == <<"https://portal-auth.nersc.gov/als/hdf/search">>

URL_DerivedDatasets == <<"https://portal-auth.nersc.gov/als/hdf/dataset">>

URL_attributes == <<"https://portal-auth.nersc.gov/als/hdf/attributes/als/bl832/">>

URL_listImages == <<"https://portal-auth.nersc.gov/als/hdf/listimages/als/bl832/">>

URL_stage == <<"https://portal-auth.nersc.gov/als/hdf/stageifneeded/als/bl832/">>

URL_rawdata == <<"https://portal-auth.nersc.gov/als/hdf/rawdata">>

URL_image == <<"https://portal-auth.nersc.gov/als/hdf/image">>

DotTif == <<".tif">>

\* How a request ends: a 2xx response with the body the endpoint documents, a
\* non-success status with a JSON error object or with a body that is no JSON,
\* or no response at all (requests raises ConnectionError).
ResponseKinds == {"ok", "http_error_json", "http_error_text", "transport_error"}

NonSuccess == {"http_error_json", "http_error_text"}

\* Python values other than Str and List, tagged with their type: None, a bool
\* (s holds its repr), and a dict of one key (s) and its value (l[1]).
PyNone == [type |-> "NoneType", s |-> <<>>, l |-> <<>>]

PyBool(b) == [type |-> "bool", s |-> IF b THEN <<"True">> ELSE <<"False">>, l |-> <<>>]

PyDict(key, v) == [type |-> "dict", s |-> key, l |-> <<v>>]

\* d[key]
GetItem(d, key) ==
    IF d.type = "dict" /\ d.s = key THEN Returned(d.l[1])
    ELSE IF d.type = "dict" THEN Raised("KeyError")
    ELSE Raised("TypeError")

\* The bodies of the service: {'auth': b}, an entry {'path': p} of the
\* derived-dataset list, and the JSON object of an error response.
PyAuth(b) == PyDict(<<"auth">>, PyBool(b))

DerivedEntry(p) == PyDict(<<"path">>, Str(p))

PathOf(entry) == entry.l[1].s

PyError == PyDict(<<"error">>, Str(<<"error">>))

\* The params or data of a request: keys and values in the order given.
NoParams == <<>>

Param(key, value) == [key |-> key, value |-> value]

ParamValue(params, key) ==
    LET i == CHOOSE i \in 1..Len(params) : params[i].key = key
    IN  params[i].value

\* One call on a requests.Session: get or post with its url and parameters, how
\* it ended and the value r.json() would give; or close.
Request(method, sid, url, params, kind, json) ==
    [method |-> method, sid |-> sid, url |-> url, params |-> params,
     resp |-> kind, json |-> json]

SessionClose(sid) ==
    [method |-> "close", sid |-> sid, url |-> <<>>, params |-> <<>>,
     resp |-> "ok", json |-> PyNone]

\* r.json() of a response of the given kind whose documented body decodes to v.
Json(kind, v) ==
    IF kind = "ok" THEN Returned(v)
    ELSE IF kind = "http_error_json" THEN Returned(PyError)
    ELSE Raised("ValueError")

\* The value recorded for r.json(): None when there is no response or no JSON.
JsonValue(kind, v) ==
    IF kind = "ok" THEN v ELSE IF kind = "http_error_json" THEN PyError ELSE PyNone

\* session.get / session.post: the call made, and the response or the exception.
Send(method, sid, url, params, kind, v) ==
    [call |-> Request(method, sid, url, params, kind, JsonValue(kind, v)),
     out |-> IF kind = "transport_error" THEN Raised("ConnectionError")
             ELSE Returned(kind)]

\* r.json() after session.get(url, params): what a query method returns.
GetJson(sid, url, params, kind, v) ==
    LET r == Send("GET", sid, url, params, kind, v)
    IN  [log |-> <<r.call>>,
         out |-> IF r.out.status = "raised" THEN r.out ELSE Json(kind, v)]

\* r.json()['auth']
AuthEntry(j) ==
    IF j.status = "raised" THEN j
    ELSE GetItem(j.value, <<"auth">>)

----------------------------------------------------------------------------
(* SpotSession: construction, authentication, close *)

RightPassword == <<"right">>

WrongPassword == <<"wrong">>

\* SpotSession.__init__.  typed is what getpass returns when password is None;
\* k1, k2 are how the GET and the POST end.  The POST's response is not looked
\* at: the new session object is stored whatever the service answered.
SpotSession_init(user, password, typed, k1, k2) ==
    LET spot_password == IF password = NoneValue THEN typed ELSE password
        spot == IF user = DefaultSentinel THEN Alvarorh ELSE user
        accepted == k2 = "ok" /\ spot_password = RightPassword
        r1 == Send("GET", 1, URL_authentication, NoParams, k1, PyAuth(FALSE))
        r2 == Send("POST", 1, URL_authentication,
                   <<Param("username", spot), Param("password", spot_password)>>,
                   k2, PyAuth(accepted))
    IN  IF r1.out.status = "raised"
        THEN [constructed |-> FALSE, log |-> <<r1.call>>, out |-> r1.out,
              spot_username |-> <<>>, session |-> NoSession]
        ELSE IF r2.out.status = "raised"
        THEN [constructed |-> FALSE, log |-> <<r1.call, r2.call>>, out |-> r2.out,
              spot_username |-> <<>>, session |-> NoSession]
        ELSE [constructed |-> TRUE, log |-> <<r1.call, r2.call>>, out |-> Returned(PyNone),
              spot_username |-> spot,
              session |-> [id |-> 1, authenticated |-> accepted]]

\* SpotSession.check_authentication
check_authentication(sess, k) ==
    LET g == GetJson(sess.id, URL_authentication, NoParams, k, PyAuth(sess.authenticated))
    IN  [log |-> g.log, out |-> AuthEntry(g.out)]

\* SpotSession.authentication.  k1 is how the first GET ends; when it reports
\* auth False, typedUser and typedPassword are what the prompts return and k2 how
\* the POST on the new session ends; k3 is how the last GET ends.  prompted
\* tells whether input() and getpass() were called.
authentication(sess, typedUser, typedPassword, k1, k2, k3) ==
    LET g1 == GetJson(sess.id, URL_authentication, NoParams, k1, PyAuth(sess.authenticated))
        a1 == AuthEntry(g1.out)
    IN  IF a1.status = "raised"
        THEN [log |-> g1.log, out |-> a1, session |-> sess, prompted |-> FALSE]
        ELSE IF a1.value = PyBool(FALSE)
        THEN LET accepted == k2 = "ok" /\ typedPassword = RightPassword
                 new == [id |-> sess.id + 1, authenticated |-> accepted]
                 r2 == Send("POST", new.id, URL_authentication,
                            <<Param("username", typedUser),
                              Param("password", typedPassword)>>,
                            k2, PyAuth(accepted))
                 g3 == GetJson(new.id, URL_authentication, NoParams, k3, PyAuth(accepted))
             IN  IF r2.out.status = "raised"
                 THEN [log |-> g1.log \o <<r2.call>>, out |-> r2.out, session |-> sess,
                       prompted |-> TRUE]
                 ELSE [log |-> g1.log \o <<r2.call>> \o g3.log,
                       out |-> AuthEntry(g3.out), session |-> new, prompted |-> TRUE]
        ELSE LET g3 == GetJson(sess.id, URL_authentication, NoParams, k3,
                               PyAuth(sess.authenticated))
             IN  [log |-> g1.log \o g3.log, out |-> AuthEntry(g3.out), session |-> sess,
                  prompted |-> FALSE]

\* SpotSession.close: session.close(), then a GET on the same session object,
\* which reconnects; the cookies, and with them the authentication, are kept.
close(sess, k) ==
    LET g == GetJson(sess.id, URL_authentication, NoParams, k, PyAuth(sess.authenticated))
    IN  [log |-> <<SessionClose(sess.id)>> \o g.log, out |-> g.out]

----------------------------------------------------------------------------
(* SpotSession: queries and staging *)

\* SpotSession.search with its default limitnum, skipnum, sortterm and sorttype.
search(sess, query, k, v) ==
    GetJson(sess.id, URL_search,
            <<Param("limitnum", <<"10">>), Param("skipnum", <<"0">>),
              Param("sortterm", <<"fs.stage_date">>), Param("sorttype", <<"desc">>),
              Param("search", query)>>,
            k, v)

\* SpotSession.derived_datasets
derived_datasets(sess, dataset, k, v) ==
    GetJson(sess.id, URL_DerivedDatasets,
            <<Param("dataset", Strip(dataset, Chars(DotH5)))>>, k, v)

\* SpotSession.attributes
attributes(sess, self_spot_username, dataset, user, k, v) ==
    LET fp == formatPath(self_spot_username, dataset, user)
        URLstring == URL_attributes \o fp.username \o Slash \o fp.filename
                        \o Raw \o fp.filename \o DotH5
    IN  GetJson(sess.id, URLstring, <<Param("group", Slash)>>, k, v)

\* SpotSession.list_images: username is used as given; None cannot be concatenated.
list_images(sess, dataset, user, k, v) ==
    LET ds == Strip(dataset, Chars(DotH5))
        URLstring == URL_listImages \o user \o Slash \o ds \o Raw \o ds \o DotH5
    IN  IF user = NoneValue THEN [log |-> <<>>, out |-> Raised("TypeError")]
        ELSE GetJson(sess.id, URLstring, NoParams, k, v)

\* SpotSession.stage
stage(sess, self_spot_username, dataset, user, k, v) ==
    LET fp == formatPath(self_spot_username, dataset, user)
        URL_string == URL_stage \o fp.username \o Slash \o fp.filename
                        \o Raw \o fp.filename \o DotH5
    IN  GetJson(sess.id, URL_string, NoParams, k, v)

----------------------------------------------------------------------------
(* SpotSession: downloads *)

\* The body of a response, in the chunks iter_content yields: the payload of a
\* 2xx response, the service's error page otherwise.
Payload == <<"chunk1", "chunk2">>

ErrorPage == <<"error page">>

Body(kind) == IF kind = "ok" THEN Payload ELSE ErrorPage

\* downloadPath after its default and its trailing "/" are supplied;
\* downloadPath[-1] of an empty string raises IndexError.
DownloadDir(downloadPath) ==
    LET dp == IF downloadPath = DefaultSentinel THEN <<".", "/">> ELSE downloadPath
    IN  IF dp = <<>> THEN Raised("IndexError")
        ELSE IF dp[Len(dp)] # "/" THEN Returned(dp \o Slash)
        ELSE Returned(dp)

\* open(fileLocation, "wb") and the loop writing the chunks that are not empty.
\* fs is what the local filesystem and the interpreter do: whether the open
\* succeeds, the write that fails (0: none), and whether the interpreter has
\* finalized the file object by the time the caller has the result.  The code
\* never closes the file object: after a normal return it is unreferenced, and is
\* closed only if the interpreter finalizes it (CPython's reference counting
\* does at once, a tracing collector at some later time); after a failed write
\* the exception's traceback still refers to the frame holding it, so it is open.
WriteChunks(fileLocation, body, fs) ==
    LET chunks == SelectSeq(body, LAMBDA c : c # "")
    IN  IF ~fs.openOk THEN [written |-> {}, out |-> Raised("IOError")]
        ELSE IF fs.failAt \in 1..Len(chunks)
        THEN [written |-> {[path |-> fileLocation,
                            content |-> SubSeq(chunks, 1, fs.failAt - 1),
                            closed |-> FALSE]},
              out |-> Raised("IOError")]
        ELSE [written |-> {[path |-> fileLocation, content |-> chunks,
                            closed |-> fs.finalized]},
              out |-> Returned(Str(fileLocation))]

\* SpotSession.download.  The response's status is not looked at.
download(sess, self_spot_username, dataset, user, downloadPath, downloadName, k, fs) ==
    LET fp == formatPath(self_spot_username, dataset, user)
        stripped == Strip(downloadName, Chars(DotH5))
        name == IF stripped = DefaultSentinel THEN fp.filename ELSE stripped
        dir == DownloadDir(downloadPath)
        r == Send("GET", sess.id, download_URL_string(self_spot_username, dataset, user),
                  NoParams, k, PyNone)
    IN  IF dir.status = "raised" THEN [log |-> <<>>, written |-> {}, out |-> dir]
        ELSE IF r.out.status = "raised"
        THEN [log |-> <<r.call>>, written |-> {}, out |-> r.out]
        ELSE LET w == WriteChunks(dir.value \o name \o DotH5, Body(k), fs)
             IN  [log |-> <<r.call>>, written |-> w.written, out |-> w.out]

\* The scan of download_image and download_URLS over data_paths from index i on:
\* path is the variable as the loop leaves it, bound only once the body has run.
RECURSIVE ScanPaths(_, _, _, _)
ScanPaths(data_paths, i, kind, path) ==
    IF i > Len(data_paths) THEN path
    ELSE LET p == [bound |-> TRUE, v |-> PathOf(data_paths[i])]
         IN  IF Contains(p.v, kind) THEN p
             ELSE ScanPaths(data_paths, i + 1, kind, p)

Unbound == [bound |-> FALSE, v |-> <<>>]

\* A scan that leaves path unbound when no entry's path holds kind.
ResolvePath_MatchOnly(data_paths, kind) ==
    IF \E i \in 1..Len(data_paths) : Contains(PathOf(data_paths[i]), kind)
    THEN ScanPaths(data_paths, 1, kind, Unbound)
    ELSE Unbound

\* A scan without the break: path is left at the last entry's.
ResolvePath_NoBreak(data_paths, kind) ==
    IF data_paths = <<>> THEN Unbound
    ELSE [bound |-> TRUE, v |-> PathOf(data_paths[Len(data_paths)])]

\* for i in range(len(data_paths)): path = data_paths[i]['path']; break on a match
ResolvePath(data_paths, kind) == ScanPaths(data_paths, 1, kind, Unbound)

\* The common part of download_image and download_URLS up to the image: the two
\* listings and the lookups in them.  kd, vd and ki, vi are how the
\* derived-dataset and the image-listing requests end.
ResolveImage(sess, filename, user, kind, number, kd, vd, ki, vi) ==
    LET d == derived_datasets(sess, filename, kd, vd)
        l == list_images(sess, filename, user, ki, vi)
    IN  IF d.out.status = "raised" THEN [log |-> d.log, out |-> d.out]
        ELSE IF d.out.value.type # "list" THEN [log |-> d.log, out |-> Raised("KeyError")]
        ELSE IF l.out.status = "raised" THEN [log |-> d.log \o l.log, out |-> l.out]
        ELSE IF l.out.value.type # "list"
        THEN [log |-> d.log \o l.log, out |-> Raised("KeyError")]
        ELSE LET image_list == l.out.value.l
                 n == IF number < 0 THEN Len(image_list) + number + 1 ELSE number + 1
             IN  IF n \notin 1..Len(image_list)
                 THEN [log |-> d.log \o l.log, out |-> Raised("IndexError")]
                 ELSE [log |-> d.log \o l.log,
                       out |-> Returned([path |-> ResolvePath(d.out.value.l, kind),
                                         image |-> image_list[n]])]

\* SpotSession.download_image
download_image(sess, self_spot_username, dataset, user, kind, number, downloadPath, downloadName, kd, vd, ki, vi, k, fs) ==
    LET fp == formatPath(self_spot_username, dataset, user)
        res == ResolveImage(sess, fp.filename, fp.username, kind, number, kd, vd, ki, vi)
        name == IF downloadName = DefaultSentinel THEN fp.filename ELSE downloadName
        dir == DownloadDir(downloadPath)
    IN  IF res.out.status = "raised" THEN [log |-> res.log, written |-> {}, out |-> res.out]
        ELSE IF dir.status = "raised" THEN [log |-> res.log, written |-> {}, out |-> dir]
        ELSE IF ~res.out.value.path.bound
        THEN [log |-> res.log, written |-> {}, out |-> Raised("UnboundLocalError")]
        ELSE LET r == Send("GET", sess.id, URL_rawdata \o res.out.value.path.v,
                           <<Param("group", Slash \o res.out.value.image.s)>>,
                           k, PyNone)
             IN  IF r.out.status = "raised"
                 THEN [log |-> res.log \o <<r.call>>, written |-> {}, out |-> r.out]
                 ELSE LET w == WriteChunks(dir.value \o name \o DotTif, Body(k), fs)
                      IN  [log |-> res.log \o <<r.call>>, written |-> w.written,
                           out |-> w.out]

\* SpotSession.download_URLS
download_URLS(sess, self_spot_username, dataset, user, kind, number, kd, vd, ki, vi, k, v) ==
    LET fp == formatPath(self_spot_username, dataset, user)
        res == ResolveImage(sess, fp.filename, fp.username, kind, number, kd, vd, ki, vi)
    IN  IF res.out.status = "raised" THEN res
        ELSE IF ~res.out.value.path.bound
        THEN [log |-> res.log, out |-> Raised("UnboundLocalError")]
        ELSE LET g == GetJson(sess.id, URL_image \o res.out.value.path.v,
                              <<Param("group", Slash \o res.out.value.image.s)>>, k, v)
             IN  [log |-> res.log \o g.log, out |-> g.out]

----------------------------------------------------------------------------
(* Spec: one SpotSession object, from its construction on, under any order  *)
(* of calls and any answers of the service.                                 *)

Passwords == {RightPassword, WrongPassword}

Datasets == {<<"a">>, <<"v", "/", "a">>}

Users == {DefaultSentinel, <<"u">>}

Kinds == {<<"n">>, <<"s">>}

DerivedPaths == {<<"/", "n", "1">>, <<"/", "n", "2">>, <<"/", "s", "1">>}

DerivedLists ==
    {List(l) : l \in StringsUpTo({DerivedEntry(p) : p \in DerivedPaths}, MaxDerived)}

ImageNames == <<Str(<<"img0">>), Str(<<"img1">>), Str(<<"img2">>), Str(<<"img3">>)>>

ImageLists == {List(SubSeq(ImageNames, 1, n)) : n \in 0..MaxImages}

Numbers == -1..(MaxImages - 1)

DownloadPaths == {DefaultSentinel, <<>>, <<"d">>, <<"d", "/">>}

DownloadNames == {DefaultSentinel, <<"n">>}

FileSystems == [openOk : BOOLEAN, failAt : 0..Len(Payload), finalized : BOOLEAN]

\* The bodies a request of the given kind can be answered with: only a 2xx
\* response carries one of the documented bodies.
Answers(kind, values) == IF kind = "ok" THEN values ELSE {CHOOSE v \in values : TRUE}

\* The ways a later step of a call can end: when the call cannot get as far as
\* that step, how it would end changes nothing, and one way stands for all.
Outcomes(reached, ways) == IF reached THEN ways ELSE {CHOOSE w \in ways : TRUE}

\* No call is in progress or awaiting its caller.
Idle == ret = NotCalled

Init ==
    /\ obj = FALSE
    /\ username = <<>>
    /\ spot_username = <<>>
    /\ session = NoSession
    /\ closeCalled = FALSE
    /\ log = <<>>
    /\ written = {}
    /\ args = [op |-> "none"]
    /\ ret = NotCalled

Call_SpotSession_init ==
    /\ Idle
    /\ ~obj
    /\ \E user \in Users, password \in Passwords \cup {NoneValue}, typed \in Passwords,
          k1 \in ResponseKinds, k2 \in ResponseKinds :
          LET r == SpotSession_init(user, password, typed, k1, k2) IN
          /\ args' = [op |-> "__init__", username |-> user, password |-> password,
                      typed |-> IF password = NoneValue THEN typed ELSE NoneValue]
          /\ obj' = r.constructed
          /\ username' = IF r.constructed THEN Alvarorh ELSE username
          /\ spot_username' = r.spot_username
          /\ session' = r.session
          /\ log' = r.log
          /\ ret' = r.out
    /\ written' = {}
    /\ UNCHANGED closeCalled

Call_check_authentication ==
    /\ Idle
    /\ obj
    /\ \E k \in ResponseKinds :
          LET r == check_authentication(session, k) IN
          /\ args' = [op |-> "check_authentication"]
          /\ log' = r.log
          /\ ret' = r.out
    /\ written' = {}
    /\ UNCHANGED <<obj, username, spot_username, session, closeCalled>>

Call_authentication ==
    /\ Idle
    /\ obj
    /\ \E typedUser \in {<<"u">>}, typedPassword \in Passwords,
          k1 \in ResponseKinds, k2 \in ResponseKinds, k3 \in ResponseKinds :
          LET r == authentication(session, typedUser, typedPassword, k1, k2, k3) IN
          /\ r.session.id <= MaxSessions
          /\ args' = [op |-> "authentication", prompted |-> r.prompted]
          /\ session' = r.session
          /\ log' = r.log
          /\ ret' = r.out
    /\ written' = {}
    /\ UNCHANGED <<obj, username, spot_username, closeCalled>>

Call_close ==
    /\ Idle
    /\ obj
    /\ \E k \in ResponseKinds :
          LET r == close(session, k) IN
          /\ args' = [op |-> "close"]
          /\ log' = r.log
          /\ ret' = r.out
    /\ closeCalled' = TRUE
    /\ written' = {}
    /\ UNCHANGED <<obj, username, spot_username, session>>

Call_search ==
    /\ Idle
    /\ obj
    /\ \E query \in {<<"bl832">>}, k \in ResponseKinds :
       \E v \in Answers(k, {List(<<>>), List(<<Str(<<"dataset1">>)>>)}) :
          LET r == search(session, query, k, v) IN
          /\ args' = [op |-> "search", search |-> query]
          /\ log' = r.log
          /\ ret' = r.out
    /\ written' = {}
    /\ UNCHANGED <<obj, username, spot_username, session, closeCalled>>

Call_derived_datasets ==
    /\ Idle
    /\ obj
    /\ \E dataset \in Datasets, k \in ResponseKinds :
       \E v \in Answers(k, DerivedLists) :
          LET r == derived_datasets(session, dataset, k, v) IN
          /\ args' = [op |-> "derived_datasets", dataset |-> dataset]
          /\ log' = r.log
          /\ ret' = r.out
    /\ written' = {}
    /\ UNCHANGED <<obj, username, spot_username, session, closeCalled>>

Call_attributes ==
    /\ Idle
    /\ obj
    /\ \E dataset \in Datasets, user \in {NoneValue, <<"u">>}, k \in ResponseKinds :
          LET r == attributes(session, spot_username, dataset, user, k,
                              PyDict(<<"attributes">>, PyNone)) IN
          /\ args' = [op |-> "attributes", dataset |-> dataset, username |-> user]
          /\ log' = r.log
          /\ ret' = r.out
    /\ written' = {}
    /\ UNCHANGED <<obj, username, spot_username, session, closeCalled>>

Call_list_images ==
    /\ Idle
    /\ obj
    /\ \E dataset \in Datasets, user \in {NoneValue, <<"u">>}, k \in ResponseKinds :
       \E v \in Answers(k, ImageLists) :
          LET r == list_images(session, dataset, user, k, v) IN
          /\ args' = [op |-> "list_images", dataset |-> dataset, username |-> user]
          /\ log' = r.log
          /\ ret' = r.out
    /\ written' = {}
    /\ UNCHANGED <<obj, username, spot_username, session, closeCalled>>

Call_stage ==
    /\ Idle
    /\ obj
    /\ \E dataset \in Datasets, user \in Users, k \in ResponseKinds :
          LET r == stage(session, spot_username, dataset, user, k,
                         PyDict(<<"staging">>, PyNone)) IN
          /\ args' = [op |-> "stage", dataset |-> dataset, username |-> user]
          /\ log' = r.log
          /\ ret' = r.out
    /\ written' = {}
    /\ UNCHANGED <<obj, username, spot_username, session, closeCalled>>

Call_download ==
    /\ Idle
    /\ obj
    /\ \E dataset \in Datasets, user \in Users, downloadPath \in DownloadPaths,
          downloadName \in DownloadNames \cup {<<"n", ".", "h", "5">>},
          k \in ResponseKinds :
       \E fs \in Outcomes(k # "transport_error", FileSystems) :
          LET r == download(session, spot_username, dataset, user,
                            downloadPath, downloadName, k, fs) IN
          /\ args' = [op |-> "download", dataset |-> dataset, username |-> user,
                      downloadPath |-> downloadPath, downloadName |-> downloadName]
          /\ log' = r.log
          /\ written' = r.written
          /\ ret' = r.out
    /\ UNCHANGED <<obj, username, spot_username, session, closeCalled>>

\* A call of download_image with its arguments drawn from the given sets.
download_image_call(datasets, users, kinds, numbers, downloadPaths, downloadNames) ==
    /\ Idle
    /\ obj
    /\ \E dataset \in datasets, user \in users, kind \in kinds, number \in numbers,
          downloadPath \in downloadPaths, downloadName \in downloadNames,
          kd \in ResponseKinds :
       \E vd \in Answers(kd, DerivedLists), ki \in Outcomes(kd = "ok", ResponseKinds) :
       \E vi \in Answers(ki, ImageLists),
          k \in Outcomes(kd = "ok" /\ ki = "ok", ResponseKinds) :
       \E fs \in Outcomes(kd = "ok" /\ ki = "ok" /\ k # "transport_error", FileSystems) :
          LET r == download_image(session, spot_username, dataset, user, kind, number,
                                  downloadPath, downloadName, kd, vd, ki, vi, k, fs) IN
          /\ args' = [op |-> "download_image", dataset |-> dataset, username |-> user,
                      kind |-> kind, number |-> number,
                      downloadPath |-> downloadPath, downloadName |-> downloadName]
          /\ log' = r.log
          /\ written' = r.written
          /\ ret' = r.out
    /\ UNCHANGED <<obj, username, spot_username, session, closeCalled>>

\* A call of download_URLS with its arguments drawn from the given sets.
download_URLS_call(datasets, users, kinds, numbers) ==
    /\ Idle
    /\ obj
    /\ \E dataset \in datasets, user \in users, kind \in kinds, number \in numbers,
          kd \in ResponseKinds :
       \E vd \in Answers(kd, DerivedLists), ki \in Outcomes(kd = "ok", ResponseKinds) :
       \E vi \in Answers(ki, ImageLists),
          k \in Outcomes(kd = "ok" /\ ki = "ok", ResponseKinds) :
          LET r == download_URLS(session, spot_username, dataset, user, kind, number,
                                 kd, vd, ki, vi, k, PyDict(<<"urls">>, PyNone)) IN
          /\ args' = [op |-> "download_URLS", dataset |-> dataset, username |-> user,
                      kind |-> kind, number |-> number]
          /\ log' = r.log
          /\ ret' = r.out
    /\ written' = {}
    /\ UNCHANGED <<obj, username, spot_username, session, closeCalled>>

\* In Spec the two image calls take one dataset, image number and file name.
Call_download_image ==
    download_image_call({<<"a">>}, Users, Kinds, {0}, {DefaultSentinel, <<"d">>},
                        {DefaultSentinel})

Call_download_URLS == download_URLS_call({<<"a">>}, Users, Kinds, {0})

\* The caller takes the result (or handles the exception) of the call that
\* ended; the object is idle until the next call.
Return ==
    /\ ~Idle
    /\ args' = [op |-> "none"]
    /\ log' = <<>>
    /\ written' = {}
    /\ ret' = NotCalled
    /\ UNCHANGED <<obj, username, spot_username, session, closeCalled>>

Next ==
    \/ Return
    \/ Call_SpotSession_init
    \/ Call_check_authentication
    \/ Call_authentication
    \/ Call_close
    \/ Call_search
    \/ Call_derived_datasets
    \/ Call_attributes
    \/ Call_list_images
    \/ Call_stage
    \/ Call_download
    \/ Call_download_image
    \/ Call_download_URLS

Spec == Init /\ [][Next]_vars

----------------------------------------------------------------------------
(* SpecImage: download_image and download_URLS on a session that has been   *)
(* constructed with the default username, over all their arguments.        *)

InitImage ==
    /\ obj = TRUE
    /\ username = Alvarorh
    /\ spot_username = SpotUsernameOf(DefaultSentinel)
    /\ session = [id |-> 1, authenticated |-> TRUE]
    /\ closeCalled = FALSE
    /\ log = <<>>
    /\ written = {}
    /\ args = [op |-> "none"]
    /\ ret = NotCalled

Image_download_image ==
    download_image_call(Datasets, Users, Kinds, Numbers, DownloadPaths, DownloadNames)

Image_download_URLS == download_URLS_call(Datasets, Users, Kinds, Numbers)

NextImage ==
    \/ Return
    \/ Image_download_image
    \/ Image_download_URLS

SpecImage == InitImage /\ [][NextImage]_vars

----------------------------------------------------------------------------
(* Claims about the session's life cycle and its remote calls (Spec) *)

QueryOperations ==
    {"search", "derived_datasets", "list_images", "attributes", "stage",
     "download", "download_image", "download_URLS"}

IsRequest(call) == call.method \in {"GET", "POST"}

\* C2: once close() has been called, every later query operation (search,
\* derived_datasets, list_images, attributes, stage, download, download_image,
\* download_URLS) is rejected with an error and issues no network request, and
\* close() itself issues no request after terminating the connection.
C2_ClosedSessionRejects ==
    closeCalled =>
        /\ args.op \in QueryOperations => (ret.status = "raised" /\ log = <<>>)
        /\ args.op = "close" =>
              \A i \in 1..Len(log) : \A j \in (i + 1)..Len(log) :
                  log[i].method = "close" => ~IsRequest(log[j])

\* The service answered the credential POST and did not accept the credentials.
CredentialsRejected ==
    /\ Len(log) = 2
    /\ log[2].method = "POST"
    /\ log[2].resp # "transport_error"
    /\ ~(log[2].resp = "ok" /\ log[2].json = PyAuth(TRUE))

\* C9: the constructor performs a fetch of the authentication endpoint followed
\* by a credential POST, and a session object is produced only if the service
\* accepted the credentials: when they are rejected the constructor fails with
\* an error and no usable session object exists.
C9_OpenFailsWhenRejected ==
    args.op = "__init__" =>
        /\ log # <<>> /\ log[1].method = "GET" /\ log[1].url = URL_authentication
        /\ Len(log) >= 2 => (log[2].method = "POST" /\ log[2].url = URL_authentication)
        /\ CredentialsRejected => (ret.status = "raised" /\ ~obj)

\* C10: whenever a remote call made by a query, staging or download operation
\* returns a non-success HTTP status, the operation aborts with an error and
\* produces no result: it returns nothing, and download and download_image
\* create or write no file.
C10_NonSuccessAborts ==
    (args.op \in QueryOperations /\ \E i \in 1..Len(log) : log[i].resp \in NonSuccess)
        => (ret.status = "raised" /\ written = {})

----------------------------------------------------------------------------
(* Claims about download_image and download_URLS (SpecImage) *)

ImageOperations == {"download_image", "download_URLS"}

\* The derived-dataset request of the call was answered with the empty list.
DerivedEmpty ==
    /\ args.op \in ImageOperations
    /\ log # <<>>
    /\ log[1].url = URL_DerivedDatasets
    /\ log[1].resp = "ok"
    /\ log[1].json.l = <<>>

\* C3: when derived_datasets returns an empty sequence, download_image and
\* download_URLS signal an error instead of proceeding: after the empty result
\* they issue no further request (no image-listing GET, no download GET) and
\* write no file.
C3_EmptyDerivedStopsAtOnce ==
    DerivedEmpty => (ret.status = "raised" /\ Len(log) = 1 /\ written = {})

\* download_image has returned, after a derived-dataset list holding a path
\* with the substring kind and an image listing that has position number.
ImageDownloaded ==
    /\ args.op = "download_image"
    /\ ret.status = "returned"
    /\ Len(log) = 3
    /\ \E i \in 1..Len(log[1].json.l) : Contains(PathOf(log[1].json.l[i]), args.kind)
    /\ args.number \in 0..(Len(log[2].json.l) - 1)

\* The path of the first entry of data_paths whose path holds the substring kind.
FirstMatch(data_paths, kind) ==
    LET m == CHOOSE i \in 1..Len(data_paths) :
                 /\ Contains(PathOf(data_paths[i]), kind)
                 /\ \A j \in 1..(i - 1) : ~Contains(PathOf(data_paths[j]), kind)
    IN  PathOf(data_paths[m])

\* C5: download_image(d, u, kind, n, dir, name) selects the path of the first
\* entry of the derived-dataset sequence whose path contains kind, takes the
\* image at position n of the listing, issues its download GET to the rawdata
\* endpoint followed by exactly that path with group parameter '/' + that image,
\* and writes the body to the file dir + name + '.tif', which it returns (dir
\* and name being given, not left to their defaults).
C5_WritesDirPlusName ==
    (ImageDownloaded /\ args.downloadPath # DefaultSentinel
                     /\ args.downloadName # DefaultSentinel)
        => /\ log[3].method = "GET"
           /\ log[3].url = URL_rawdata \o FirstMatch(log[1].json.l, args.kind)
           /\ ParamValue(log[3].params, "group") = Slash \o log[2].json.l[args.number + 1].s
           /\ ret.value = Str(args.downloadPath \o args.downloadName \o DotTif)
           /\ \E w \in written : w.path = ret.value.s /\ w.content = Body(log[3].resp)

\* The directory and the file name download_image writes to.
ExpectedDir(downloadPath) ==
    IF downloadPath = DefaultSentinel THEN <<".", "/">>
    ELSE IF downloadPath[Len(downloadPath)] = "/" THEN downloadPath
    ELSE downloadPath \o <<"/">>

ExpectedName(downloadName) ==
    IF downloadName = DefaultSentinel
    THEN formatPath(spot_username, args.dataset, args.username).filename
    ELSE downloadName

\* C5 (amended): as C5, but the file written and returned is D + N + '.tif',
\* where D is './' when dir is 'default', dir when dir ends in '/' and dir + '/'
\* otherwise, and N is the resolved filename when name is 'default' and name
\* otherwise; the body written is the response's, whatever its status.
C5_WritesResolvedFile ==
    ImageDownloaded
        => /\ log[3].method = "GET"
           /\ log[3].url = URL_rawdata \o FirstMatch(log[1].json.l, args.kind)
           /\ ParamValue(log[3].params, "group") = Slash \o log[2].json.l[args.number + 1].s
           /\ ret.value = Str(ExpectedDir(args.downloadPath)
                                \o ExpectedName(args.downloadName) \o DotTif)
           /\ \E w \in written :
                 /\ written = {w}
                 /\ w.path = ret.value.s
                 /\ w.content = Body(log[3].resp)

\* download_image has returned for a list of two different paths that both hold
\* kind, the second image, and a directory given without its trailing '/'.
C5_Witness ==
    /\ ImageDownloaded
    /\ Len(log[1].json.l) = 2
    /\ log[1].json.l[1] # log[1].json.l[2]
    /\ Contains(PathOf(log[1].json.l[2]), args.kind)
    /\ Contains(PathOf(log[1].json.l[1]), args.kind)
    /\ args.number = 1
    /\ args.downloadPath = <<"d">>
    /\ args.downloadName = <<"n">>

\* The derived-dataset request of the call was answered with a list that is not
\* empty and holds no path with the substring kind.
NoMatch ==
    /\ args.op \in ImageOperations
    /\ log # <<>>
    /\ log[1].url = URL_DerivedDatasets
    /\ log[1].resp = "ok"
    /\ log[1].json.l # <<>>
    /\ \A i \in 1..Len(log[1].json.l) : ~Contains(PathOf(log[1].json.l[i]), args.kind)

\* The image listing was answered, has the position number (counted from the
\* end when negative), and the download directory is not the empty string.
ImageResolved ==
    /\ Len(log) >= 2
    /\ log[2].resp = "ok"
    /\ args.number \in (0 - Len(log[2].json.l))..(Len(log[2].json.l) - 1)
    /\ args.op = "download_image" => args.downloadPath # <<>>

\* image_list[number]
ImageAt(image_list, number) ==
    IF number < 0 THEN image_list[Len(image_list) + number + 1]
    ELSE image_list[number + 1]

\* C13: in download_image and download_URLS, when the derived-dataset sequence
\* is not empty and no entry's path contains the substring kind, the scan runs
\* to the end and the request is built from the path of the last entry: the
\* operation goes on to the image listing and to the download or URL GET for
\* that path, and no error or not-found result comes of the missing match (it
\* fails only as it would after a match: no connection, no JSON, a failed write).
C13_NoMatchUsesLastPath ==
    NoMatch =>
        /\ Len(log) >= 2
        /\ ImageResolved =>
              /\ Len(log) = 3
              /\ log[3].method = "GET"
              /\ log[3].url = (IF args.op = "download_image" THEN URL_rawdata
                                                                ELSE URL_image)
                                  \o PathOf(log[1].json.l[Len(log[1].json.l)])
              /\ ParamValue(log[3].params, "group")
                    = Slash \o ImageAt(log[2].json.l, args.number).s
              /\ ret.status = "raised" => ret.exc \in {"ConnectionError", "ValueError", "IOError"}
              /\ (args.op = "download_URLS" /\ log[3].resp = "ok") => ret.status = "returned"
              /\ (args.op = "download_image" /\ ret.status = "returned")
                    => \E w \in written : w.path = ret.value.s

\* download_image has returned a file after a list of two different paths, none
\* of which holds kind.
C13_Witness ==
    /\ NoMatch
    /\ args.op = "download_image"
    /\ Len(log[1].json.l) = 2
    /\ log[1].json.l[1] # log[1].json.l[2]
    /\ Len(log) = 3
    /\ ret.status = "returned"
    /\ written # {}

----------------------------------------------------------------------------
(* Claims about the output file of download and download_image (Spec) *)

DownloadOperations == {"download", "download_image"}

\* C11: in download and download_image the output file handle opened for the
\* chunked write is closed on every exit path: after the operation has returned
\* normally and after it has failed during streaming, no file handle opened by
\* the operation remains open.
C11_HandleClosedOnExit ==
    (args.op \in DownloadOperations /\ ret # NotCalled)
        => \A w \in written : w.closed

----------------------------------------------------------------------------
(* Claims about check_authentication and authentication (Spec) *)

\* The first GET of the call that has just ended reported the given auth flag.
CheckReports(calls, b) ==
    /\ calls[1].method = "GET"
    /\ calls[1].url = URL_authentication
    /\ calls[1].resp = "ok"
    /\ calls[1].json = PyAuth(b)

\* On the connection sid, calls holds a fetch of the authentication URL directly
\* followed by a credential POST to it.
Handshake(calls, sid) ==
    \E i \in 1..(Len(calls) - 1) :
        /\ calls[i].method = "GET" /\ calls[i].sid = sid
        /\ calls[i].url = URL_authentication
        /\ calls[i + 1].method = "POST" /\ calls[i + 1].sid = sid
        /\ calls[i + 1].url = URL_authentication

\* check_authentication leaves the held connection and the stored usernames as
\* they were.
CheckAuthenticationFrame ==
    (Idle /\ args'.op = "check_authentication")
        => (session' = session /\ username' = username
                /\ spot_username' = spot_username)

\* authentication replaces the connection and prompts only when its check
\* reports false, and does neither when it reports true.
ReplacesOnlyWhenFalse ==
    (Idle /\ args'.op = "authentication")
        => /\ (session' # session \/ args'.prompted) => CheckReports(log', FALSE)
           /\ CheckReports(log', TRUE) => (session' = session /\ ~args'.prompted)

\* When authentication replaces the connection, the new connection has made the
\* handshake of the constructor: the fetch, then the credential POST.
RepeatsHandshake ==
    (Idle /\ args'.op = "authentication" /\ session' # session)
        => Handshake(log', session'.id)

\* C12: check_authentication never changes session state (the held connection
\* and the stored usernames are the same before and after); authentication()
\* replaces the held connection and collects credentials only when the
\* authentication check reports false, and when the check reports true it
\* leaves the connection unchanged and prompts for nothing; when it does
\* re-authenticate it repeats the two-step handshake of open (fetch, then
\* credential POST) on the new connection.
C12_ReauthenticateRepeatsHandshake ==
    [][CheckAuthenticationFrame /\ ReplacesOnlyWhenFalse /\ RepeatsHandshake]_vars

====
